---------------------------- MODULE Spec2Model ----------------------------
(***************************************************************************)
(* Model of the zendesk_macro resource adapter                             *)
(* (zendesk/resource_zendesk_macro.go): the mapper between the attribute   *)
(* bag and client.Macro (marshalMacro / unmarshalMacro) and the four       *)
(* lifecycle operations createMacro, readMacro, updateMacro, deleteMacro.  *)
(*                                                                         *)
(* Strings that the code only copies (url, title, ...) are TLA+ strings.   *)
(* The identifier is formatted and parsed by the code, so it is a sequence *)
(* of one-character strings and fmt.Sprintf("%d") / strconv.ParseInt are   *)
(* computed digit by digit.  int64 is scaled down to BitSize bits.         *)
(***************************************************************************)
EXTENDS Integers, Sequences, FiniteSets, TLC

\* ---------------------------------------------------------------- bounds
\* width of the identifier integer (64 in the code, scaled down)
BitSize == 16
\* number of lifecycle operations invoked on one bag
MaxOps == 2

MinInt == -(2^(BitSize - 1))
MaxInt == 2^(BitSize - 1) - 1
MaxUint == 2^BitSize - 1

\* ------------------------------------------------- decimal format / parse
DigitChars == <<"0", "1", "2", "3", "4", "5", "6", "7", "8", "9">>

IsDigit(c) == \E i \in 1..10 : DigitChars[i] = c

DigitVal(c) == (CHOOSE i \in 1..10 : DigitChars[i] = c) - 1

RECURSIVE FormatUint(_)
FormatUint(n) ==
    IF n < 10 THEN <<DigitChars[n + 1]>>
    ELSE FormatUint(n \div 10) \o <<DigitChars[(n % 10) + 1]>>

\* faulty variant of Sprintf: the sign is dropped
SprintfNoSign(n) == IF n < 0 THEN FormatUint(-n) ELSE FormatUint(n)

\* fmt.Sprintf("%d", n)
Sprintf(n) == IF n < 0 THEN <<"-">> \o FormatUint(-n) ELSE FormatUint(n)

\* strconv.ParseUint(s, 10, BitSize): left to right, the first bad character
\* or the first overflow ends the parse with an error
RECURSIVE ParseUintFrom(_, _, _)
ParseUintFrom(s, i, acc) ==
    IF i > Len(s) THEN [ok |-> TRUE, val |-> acc]
    ELSE IF ~IsDigit(s[i]) THEN [ok |-> FALSE, val |-> 0]
    ELSE IF acc * 10 + DigitVal(s[i]) > MaxUint THEN [ok |-> FALSE, val |-> 0]
    ELSE ParseUintFrom(s, i + 1, acc * 10 + DigitVal(s[i]))

ParseUint(s) ==
    IF s = <<>> THEN [ok |-> FALSE, val |-> 0] ELSE ParseUintFrom(s, 1, 0)

\* strconv.ParseInt(s, 10, BitSize)
ParseInt(s) ==
    IF s = <<>> THEN [ok |-> FALSE, val |-> 0]
    ELSE LET neg  == s[1] = "-"
             rest == IF s[1] = "+" \/ s[1] = "-" THEN Tail(s) ELSE s
             un   == ParseUint(rest)
             cutoff == 2^(BitSize - 1)
         IN IF ~un.ok THEN [ok |-> FALSE, val |-> 0]
            ELSE IF ~neg /\ un.val >= cutoff THEN [ok |-> FALSE, val |-> 0]
            ELSE IF neg /\ un.val > cutoff THEN [ok |-> FALSE, val |-> 0]
            ELSE [ok |-> TRUE, val |-> IF neg THEN -un.val ELSE un.val]

\* ------------------------------------------------------------ data model
\* the seven keys of the schema
FieldNames == {"url", "title", "description", "position", "restriction",
               "active", "actions"}

\* client.Macro{}
ZeroMacro ==
    [ID |-> 0, URL |-> "", Title |-> "", Description |-> "", Position |-> 0,
     Restriction |-> "", Active |-> FALSE, Actions |-> <<>>]

\* client.MacroAction{Field, Value}
MacroAction(f, v) == [Field |-> f, Value |-> v]

\* an entry of the bag's "actions" list: a nested attribute bag
BagAction(f, v) == [field |-> f, value |-> v]

\* Macros the remote client answers with
RemoteMacros ==
    { ZeroMacro,
      [ZeroMacro EXCEPT !.ID = 12345],
      [ID |-> 1234, URL |-> "foobar", Title |-> "foobar",
       Description |-> "foobar", Position |-> 50,
       Restriction |-> "restriction", Active |-> TRUE,
       Actions |-> <<MacroAction("status", "open")>>],
      [ZeroMacro EXCEPT !.ID = 777, !.Title = "T", !.Active = TRUE,
                        !.Actions = <<MacroAction("status", "solved")>>],
      [ZeroMacro EXCEPT !.ID = MinInt, !.Title = "U", !.Position = 7,
                        !.Actions = <<MacroAction("status", "open"),
                                      MacroAction("priority", "high")>>],
      [ZeroMacro EXCEPT !.ID = MaxInt, !.URL = "u", !.Active = TRUE,
                        !.Actions = <<MacroAction("priority", "high"),
                                      MacroAction("status", "open")>>] }

\* what a remote call returns: an error, or a Macro
Responses ==
    {[err |-> TRUE, m |-> ZeroMacro]} \cup
    {[err |-> FALSE, m |-> m] : m \in RemoteMacros}

\* identifiers a bag is handed over with
IdStrings ==
    { <<>>, <<"a", "b", "c">>, <<"1", "2", "3", "4", "5">>, <<"-", "5">>,
      <<"0", "0", "7">>, <<"9", "9", "9", "9", "9", "9">>, <<"+", "7">> }

\* attribute maps a bag is built from, each with whether the host built the
\* bag from it as a declared configuration (TRUE) or it is the bag's own
\* map, as in the unit tests (FALSE)
Configs ==
    { << <<>>, FALSE >>,
      << [url |-> "https://example.zendesk.com/api/v2/macros/360011737434.json",
          title |-> "title", description |-> "description", position |-> 12,
          active |-> TRUE, restriction |-> "restriction",
          actions |-> <<BagAction("status", "open")>>], FALSE >>,
      << [title |-> "T", actions |-> <<BagAction("status", "solved")>>],
         TRUE >>,
      << [title |-> "T", active |-> FALSE,
          actions |-> <<BagAction("status", "open"),
                        BagAction("priority", "high")>>], TRUE >> }

\* which Set calls of one Encode the bag accepted before it rejected one;
\* FieldNames itself: every Set was accepted
WriteOutcomes ==
    { FieldNames, {}, {"url", "title", "active"} }

\* --------------------------------------------------- schema descriptor
\* the Default markers of the schema
SchemaDefaults == [active |-> TRUE]

\* the bag the host builds from a declared configuration: keys the
\* configuration omits are filled with the schema's defaults
ApplyDefaults(cfg) ==
    [k \in DOMAIN cfg \cup DOMAIN SchemaDefaults |->
        IF k \in DOMAIN cfg THEN cfg[k] ELSE SchemaDefaults[k]]

\* --------------------------------------------------- attribute bag accessor
Id(d) == d.id

SetId(d, v) == [d EXCEPT !.id = v]

GetOk(d, k) ==
    IF k \in DOMAIN d.fields THEN [v |-> d.fields[k], ok |-> TRUE]
    ELSE [v |-> "nil", ok |-> FALSE]

\* the value the bag keeps for key k: a list of structs is kept as a list
\* of nested attribute bags, in the same order
RECURSIVE Flatten(_)
Flatten(as) ==
    IF as = <<>> THEN <<>>
    ELSE <<BagAction(Head(as).Field, Head(as).Value)>> \o Flatten(Tail(as))

Stored(k, v) == IF k = "actions" THEN Flatten(v) ELSE v

\* the Set calls on the keys of W, each accepted
SetAll(d, fields, W) ==
    [d EXCEPT !.fields =
        [k \in DOMAIN @ \cup W |->
            IF k \in W THEN Stored(k, fields[k]) ELSE @[k]]]

\* one Set per key; the first rejected Set ends the loop with its error
setSchemaFields(d, fields, W) ==
    [d |-> SetAll(d, fields, W \cap DOMAIN fields),
     err |-> ~(DOMAIN fields \subseteq W)]

\* ------------------------------------------------------------------ mapper
\* faulty variant of marshalMacro: url, being read-only, is not written
marshalMacroNoUrl(field, d, W) ==
    setSchemaFields(d,
        [title |-> field.Title, description |-> field.Description,
         position |-> field.Position, restriction |-> field.Restriction,
         active |-> field.Active, actions |-> field.Actions], W)

marshalMacro(field, d, W) ==
    setSchemaFields(d,
        [url |-> field.URL, title |-> field.Title,
         description |-> field.Description, position |-> field.Position,
         restriction |-> field.Restriction, active |-> field.Active,
         actions |-> field.Actions], W)

\* the loop over the bag's actions list, appending in list order
RECURSIVE AppendActions(_, _)
AppendActions(acc, actions) ==
    IF actions = <<>> THEN acc
    ELSE AppendActions(
            Append(acc, MacroAction(Head(actions).field, Head(actions).value)),
            Tail(actions))

\* faulty variant of unmarshalMacro: each action is put in front of the ones before
unmarshalMacroReversed(d) ==
    IF Id(d) # <<>> /\ ~ParseInt(Id(d)).ok
    THEN [m |-> ZeroMacro, err |-> TRUE]
    ELSE [m |->
            [ID |-> IF Id(d) # <<>> THEN ParseInt(Id(d)).val ELSE 0,
             URL |-> IF GetOk(d, "url").ok THEN GetOk(d, "url").v ELSE "",
             Title |-> IF GetOk(d, "title").ok THEN GetOk(d, "title").v ELSE "",
             Description |-> IF GetOk(d, "description").ok
                             THEN GetOk(d, "description").v ELSE "",
             Position |-> IF GetOk(d, "position").ok
                          THEN GetOk(d, "position").v ELSE 0,
             Restriction |-> IF GetOk(d, "restriction").ok
                             THEN GetOk(d, "restriction").v ELSE "",
             Active |-> IF GetOk(d, "active").ok
                        THEN GetOk(d, "active").v ELSE FALSE,
             Actions |-> IF GetOk(d, "actions").ok
                         THEN LET RECURSIVE Rev(_)
                                  Rev(as) == IF as = <<>> THEN <<>>
                                             ELSE Rev(Tail(as)) \o <<Head(as)>>
                              IN Rev(AppendActions(<<>>, GetOk(d, "actions").v))
                         ELSE <<>>],
          err |-> FALSE]

\* faulty variant of unmarshalMacro: the identifier is not copied into the Macro
unmarshalMacroNoId(d) ==
    IF Id(d) # <<>> /\ ~ParseInt(Id(d)).ok
    THEN [m |-> ZeroMacro, err |-> TRUE]
    ELSE [m |->
            [ID |-> 0,
             URL |-> IF GetOk(d, "url").ok THEN GetOk(d, "url").v ELSE "",
             Title |-> IF GetOk(d, "title").ok THEN GetOk(d, "title").v ELSE "",
             Description |-> IF GetOk(d, "description").ok
                             THEN GetOk(d, "description").v ELSE "",
             Position |-> IF GetOk(d, "position").ok
                          THEN GetOk(d, "position").v ELSE 0,
             Restriction |-> IF GetOk(d, "restriction").ok
                             THEN GetOk(d, "restriction").v ELSE "",
             Active |-> IF GetOk(d, "active").ok
                        THEN GetOk(d, "active").v ELSE FALSE,
             Actions |-> IF GetOk(d, "actions").ok
                         THEN AppendActions(<<>>, GetOk(d, "actions").v)
                         ELSE <<>>],
          err |-> FALSE]

\* faulty variant of unmarshalMacro: an absent active is taken to be true
unmarshalMacroActiveTrue(d) ==
    IF Id(d) # <<>> /\ ~ParseInt(Id(d)).ok
    THEN [m |-> ZeroMacro, err |-> TRUE]
    ELSE [m |->
            [ID |-> IF Id(d) # <<>> THEN ParseInt(Id(d)).val ELSE 0,
             URL |-> IF GetOk(d, "url").ok THEN GetOk(d, "url").v ELSE "",
             Title |-> IF GetOk(d, "title").ok THEN GetOk(d, "title").v ELSE "",
             Description |-> IF GetOk(d, "description").ok
                             THEN GetOk(d, "description").v ELSE "",
             Position |-> IF GetOk(d, "position").ok
                          THEN GetOk(d, "position").v ELSE 0,
             Restriction |-> IF GetOk(d, "restriction").ok
                             THEN GetOk(d, "restriction").v ELSE "",
             Active |-> IF GetOk(d, "active").ok
                        THEN GetOk(d, "active").v ELSE TRUE,
             Actions |-> IF GetOk(d, "actions").ok
                         THEN AppendActions(<<>>, GetOk(d, "actions").v)
                         ELSE <<>>],
          err |-> FALSE]

\* bag -> Macro.  A non-empty identifier is parsed and a parse error ends
\* the decoding; every other field is read only if GetOk reports it, and
\* keeps the zero value of client.Macro{} otherwise.
unmarshalMacro(d) ==
    IF Id(d) # <<>> /\ ~ParseInt(Id(d)).ok
    THEN [m |-> ZeroMacro, err |-> TRUE]
    ELSE [m |->
            [ID |-> IF Id(d) # <<>> THEN ParseInt(Id(d)).val ELSE 0,
             URL |-> IF GetOk(d, "url").ok THEN GetOk(d, "url").v ELSE "",
             Title |-> IF GetOk(d, "title").ok THEN GetOk(d, "title").v ELSE "",
             Description |-> IF GetOk(d, "description").ok
                             THEN GetOk(d, "description").v ELSE "",
             Position |-> IF GetOk(d, "position").ok
                          THEN GetOk(d, "position").v ELSE 0,
             Restriction |-> IF GetOk(d, "restriction").ok
                             THEN GetOk(d, "restriction").v ELSE "",
             Active |-> IF GetOk(d, "active").ok
                        THEN GetOk(d, "active").v ELSE FALSE,
             Actions |-> IF GetOk(d, "actions").ok
                         THEN AppendActions(<<>>, GetOk(d, "actions").v)
                         ELSE <<>>],
          err |-> FALSE]

\* ------------------------------------------------------- lifecycle adapter
\* diag.FromErr(err): one diagnostic, named here by the kind of its error
MalformedIdentifier == "MalformedIdentifier"
RemoteCallFailed == "RemoteCallFailed"
BagWriteFailed == "BagWriteFailed"

FromErr(kind) == <<kind>>

\* a remote call as the client sees it
Call(method, id, m) == [method |-> method, id |-> id, m |-> m]

\* what one lifecycle operation leaves behind: the bag, the diagnostics it
\* returns, the remote calls it issued, the Macro the remote call returned
\* (if it returned one) and the number of SetId calls it made
Outcome(d, ds, cs, rs, n) ==
    [d |-> d, diags |-> ds, calls |-> cs, resp |-> rs, setIds |-> n]

\* faulty variant of createMacro: the identifier is set before the remote call's
\* error is looked at
createMacroSetIdEarly(d, zd, W) ==
    LET u == unmarshalMacro(d) IN
    IF u.err THEN Outcome(d, FromErr(MalformedIdentifier), <<>>, <<>>, 0)
    ELSE LET call == Call("CreateMacro", 0, u.m)
             d1   == SetId(d, Sprintf(zd.m.ID)) IN
         IF zd.err
         THEN Outcome(d1, FromErr(RemoteCallFailed), <<call>>, <<>>, 1)
         ELSE LET e == marshalMacro(zd.m, d1, W) IN
              IF e.err
              THEN Outcome(e.d, FromErr(BagWriteFailed), <<call>>, <<zd.m>>, 1)
              ELSE Outcome(e.d, <<>>, <<call>>, <<zd.m>>, 1)

createMacro(d, zd, W) ==
    LET u == unmarshalMacro(d) IN
    IF u.err THEN Outcome(d, FromErr(MalformedIdentifier), <<>>, <<>>, 0)
    ELSE LET call == Call("CreateMacro", 0, u.m) IN
         IF zd.err
         THEN Outcome(d, FromErr(RemoteCallFailed), <<call>>, <<>>, 0)
         ELSE LET d1 == SetId(d, Sprintf(zd.m.ID))
                  e  == marshalMacro(zd.m, d1, W) IN
              IF e.err
              THEN Outcome(e.d, FromErr(BagWriteFailed), <<call>>, <<zd.m>>, 1)
              ELSE Outcome(e.d, <<>>, <<call>>, <<zd.m>>, 1)

\* faulty variant of readMacro: the parse error is dropped and id 0 is fetched
readMacroIgnoresParseError(d, zd, W) ==
    LET call == Call("GetMacro", ParseInt(Id(d)).val, ZeroMacro) IN
    IF zd.err
    THEN Outcome(d, FromErr(RemoteCallFailed), <<call>>, <<>>, 0)
    ELSE LET e == marshalMacro(zd.m, d, W) IN
         IF e.err
         THEN Outcome(e.d, FromErr(BagWriteFailed), <<call>>, <<zd.m>>, 0)
         ELSE Outcome(e.d, <<>>, <<call>>, <<zd.m>>, 0)

readMacro(d, zd, W) ==
    LET p == ParseInt(Id(d)) IN
    IF ~p.ok THEN Outcome(d, FromErr(MalformedIdentifier), <<>>, <<>>, 0)
    ELSE LET call == Call("GetMacro", p.val, ZeroMacro) IN
         IF zd.err
         THEN Outcome(d, FromErr(RemoteCallFailed), <<call>>, <<>>, 0)
         ELSE LET e == marshalMacro(zd.m, d, W) IN
              IF e.err
              THEN Outcome(e.d, FromErr(BagWriteFailed), <<call>>, <<zd.m>>, 0)
              ELSE Outcome(e.d, <<>>, <<call>>, <<zd.m>>, 0)

\* faulty variant of updateMacro: the identifier is set again from the returned Macro
updateMacroSetsId(d, zd, W) ==
    LET u == unmarshalMacro(d)
        p == ParseInt(Id(d)) IN
    IF u.err THEN Outcome(d, FromErr(MalformedIdentifier), <<>>, <<>>, 0)
    ELSE IF ~p.ok THEN Outcome(d, FromErr(MalformedIdentifier), <<>>, <<>>, 0)
    ELSE LET call == Call("UpdateMacro", p.val, u.m) IN
         IF zd.err
         THEN Outcome(d, FromErr(RemoteCallFailed), <<call>>, <<>>, 0)
         ELSE LET d1 == SetId(d, Sprintf(zd.m.ID))
                  e  == marshalMacro(zd.m, d1, W) IN
              IF e.err
              THEN Outcome(e.d, FromErr(BagWriteFailed), <<call>>, <<zd.m>>, 1)
              ELSE Outcome(e.d, <<>>, <<call>>, <<zd.m>>, 1)

updateMacro(d, zd, W) ==
    LET u == unmarshalMacro(d)
        p == ParseInt(Id(d)) IN
    IF u.err THEN Outcome(d, FromErr(MalformedIdentifier), <<>>, <<>>, 0)
    ELSE IF ~p.ok THEN Outcome(d, FromErr(MalformedIdentifier), <<>>, <<>>, 0)
    ELSE LET call == Call("UpdateMacro", p.val, u.m) IN
         IF zd.err
         THEN Outcome(d, FromErr(RemoteCallFailed), <<call>>, <<>>, 0)
         ELSE LET e == marshalMacro(zd.m, d, W) IN
              IF e.err
              THEN Outcome(e.d, FromErr(BagWriteFailed), <<call>>, <<zd.m>>, 0)
              ELSE Outcome(e.d, <<>>, <<call>>, <<zd.m>>, 0)

\* faulty variant of deleteMacro: the identifier is cleared before the remote call
deleteMacroClearsId(d, zd) ==
    LET p == ParseInt(Id(d)) IN
    IF ~p.ok THEN Outcome(d, FromErr(MalformedIdentifier), <<>>, <<>>, 0)
    ELSE LET call == Call("DeleteMacro", p.val, ZeroMacro)
             d1   == SetId(d, <<>>) IN
         IF zd.err
         THEN Outcome(d1, FromErr(RemoteCallFailed), <<call>>, <<>>, 1)
         ELSE Outcome(d1, <<>>, <<call>>, <<>>, 1)

deleteMacro(d, zd) ==
    LET p == ParseInt(Id(d)) IN
    IF ~p.ok THEN Outcome(d, FromErr(MalformedIdentifier), <<>>, <<>>, 0)
    ELSE LET call == Call("DeleteMacro", p.val, ZeroMacro) IN
         IF zd.err
         THEN Outcome(d, FromErr(RemoteCallFailed), <<call>>, <<>>, 0)
         ELSE Outcome(d, <<>>, <<call>>, <<>>, 0)

\* ------------------------------------------------------------------- state
VARIABLES
    bag,        \* the attribute bag: [id, fields]
    op,         \* the lifecycle operation that ran last ("none" at first)
    diags,      \* the diagnostics it returned
    calls,      \* the remote calls it issued
    resp,       \* <<m>> if its remote call returned the Macro m, else <<>>
    nOps,       \* operations invoked on this bag so far
    idSets,     \* SetId calls made on this bag so far
    lifecycle,  \* "fresh"; "create_first": a Create on an empty identifier,
                \* then only Read/Update/Delete; "other"
    created,    \* a Create on this bag has returned no diagnostic
    config,     \* the attribute map the bag was built from
    hostFilled  \* the bag was built by the host, defaults applied

vars == <<bag, op, diags, calls, resp, nOps, idSets, lifecycle, created,
          config, hostFilled>>

\* the bag as handed to the first operation
InitialBag(id, cfg, filled) ==
    [id |-> id, fields |-> IF filled THEN ApplyDefaults(cfg) ELSE cfg]

Init ==
    /\ \E id \in IdStrings, c \in Configs :
          /\ bag = InitialBag(id, c[1], c[2])
          /\ config = c[1]
          /\ hostFilled = c[2]
    /\ op = "none"
    /\ diags = <<>>
    /\ calls = <<>>
    /\ resp = <<>>
    /\ nOps = 0
    /\ idSets = 0
    /\ lifecycle = "fresh"
    /\ created = FALSE

\* the part every operation shares: the outcome o of operation name
Apply(name, o) ==
    /\ bag' = o.d
    /\ op' = name
    /\ diags' = o.diags
    /\ calls' = o.calls
    /\ resp' = o.resp
    /\ nOps' = nOps + 1
    /\ idSets' = idSets + o.setIds
    /\ UNCHANGED <<config, hostFilled>>

Create ==
    /\ nOps < MaxOps
    /\ \E zd \in Responses, W \in WriteOutcomes :
          LET o == createMacro(bag, zd, W) IN
          /\ Apply("Create", o)
          /\ lifecycle' = IF nOps = 0 /\ Id(bag) = <<>>
                          THEN "create_first" ELSE "other"
          /\ created' = (created \/ o.diags = <<>>)

Read ==
    /\ nOps < MaxOps
    /\ \E zd \in Responses, W \in WriteOutcomes :
          /\ Apply("Read", readMacro(bag, zd, W))
          /\ lifecycle' = IF nOps = 0 THEN "other" ELSE lifecycle
          /\ UNCHANGED created

Update ==
    /\ nOps < MaxOps
    /\ \E zd \in Responses, W \in WriteOutcomes :
          /\ Apply("Update", updateMacro(bag, zd, W))
          /\ lifecycle' = IF nOps = 0 THEN "other" ELSE lifecycle
          /\ UNCHANGED created

Delete ==
    /\ nOps < MaxOps
    /\ \E zd \in Responses :
          /\ Apply("Delete", deleteMacro(bag, zd))
          /\ lifecycle' = IF nOps = 0 THEN "other" ELSE lifecycle
          /\ UNCHANGED created

Next == Create \/ Read \/ Update \/ Delete

Spec == Init /\ [][Next]_vars


\* ------------------------------------------------------------------ claims
ReadUpdateDelete == {"Read", "Update", "Delete"}

CreateReadUpdate == {"Create", "Read", "Update"}

\* s is the decimal numeral of n: an optional "-", then digits without a
\* leading zero, whose value is n
IsDecimalOf(s, n) ==
    /\ s # <<>>
    /\ LET digits == IF s[1] = "-" THEN Tail(s) ELSE s IN
       /\ digits # <<>>
       /\ \A i \in 1..Len(digits) : IsDigit(digits[i])
       /\ Len(digits) > 1 => digits[1] # "0"
       /\ (s[1] = "-") <=> (n < 0)
    /\ ParseInt(s) = [ok |-> TRUE, val |-> n]

\* key k of bag d holds the value of Macro m's field
KeyHolds(d, k, m) ==
    /\ k \in DOMAIN d.fields
    /\ CASE k = "url" -> d.fields.url = m.URL
         [] k = "title" -> d.fields.title = m.Title
         [] k = "description" -> d.fields.description = m.Description
         [] k = "position" -> d.fields.position = m.Position
         [] k = "restriction" -> d.fields.restriction = m.Restriction
         [] k = "active" -> d.fields.active = m.Active
         [] k = "actions" ->
              /\ Len(d.fields.actions) = Len(m.Actions)
              /\ \A i \in 1..Len(m.Actions) :
                    /\ d.fields.actions[i].field = m.Actions[i].Field
                    /\ d.fields.actions[i].value = m.Actions[i].Value

\* every one of the seven keys of bag d holds the value of Macro m
BagHolds(d, m) == \A k \in FieldNames : KeyHolds(d, k, m)

\* C1: after a Create that returns no diagnostic and whose CreateMacro call
\* returned a Macro with id N, the bag's identifier is the base-10 decimal
\* string of N, and parsing it as a base-10 integer yields N again.
C1_CreateSetsDecimalId ==
    (op = "Create" /\ diags = <<>>) =>
        /\ resp # <<>>
        /\ IsDecimalOf(Id(bag), resp[1].ID)
        /\ ParseInt(Id(bag)).ok /\ ParseInt(Id(bag)).val = resp[1].ID
        /\ resp[1].ID = 12345 => Id(bag) = <<"1", "2", "3", "4", "5">>
        /\ resp[1].ID = 0 => Id(bag) = <<"0">>

\* a successful Create whose remote id is the smallest (negative) integer
C1_Witness ==
    /\ op = "Create" /\ diags = <<>>
    /\ resp # <<>> /\ resp[1].ID = MinInt
    /\ Head(Id(bag)) = "-"

\* C2: a Read, Update or Delete on a bag whose identifier does not parse as
\* a base-10 integer (the empty identifier included) returns exactly one
\* diagnostic and issues no remote call.
C2_MalformedIdentifierRejected ==
    [][ (op' \in ReadUpdateDelete /\ ~ParseInt(Id(bag)).ok) =>
            (Len(diags') = 1 /\ calls' = <<>>) ]_vars

\* an Update on a bag with the empty identifier: one diagnostic, no call
C2_Witness ==
    /\ op = "Update" /\ Id(bag) = <<>>
    /\ Len(diags) = 1 /\ calls = <<>>

\* C3: a Create that fails because Decode fails, or because the CreateMacro
\* call returns an error, returns exactly one diagnostic, leaves the
\* identifier as it was and writes no bag field.
C3_FailedCreateLeavesBag ==
    [][ (/\ op' = "Create"
         /\ \/ unmarshalMacro(bag).err
            \/ (calls' # <<>> /\ resp' = <<>>)) =>
            (Len(diags') = 1 /\ bag' = bag /\ idSets' = idSets) ]_vars

\* a Create on an empty identifier whose CreateMacro call returned an error
C3_Witness ==
    /\ op = "Create" /\ nOps = 1
    /\ calls # <<>> /\ calls[1].method = "CreateMacro" /\ resp = <<>>
    /\ Len(diags) = 1 /\ Id(bag) = <<>> /\ idSets = 0

\* C4: after a Create, Read or Update that returns no diagnostic, each of
\* the seven bag fields equals the field of the Macro the remote call
\* returned, whatever the bag held before; a Create answered with
\* {id: 777, title: "T"} ends with identifier "777" and title "T".
C4_BagHoldsReturnedMacro ==
    (op \in CreateReadUpdate /\ diags = <<>>) =>
        /\ resp # <<>>
        /\ BagHolds(bag, resp[1])
        /\ (op = "Create" /\ resp[1].ID = 777) =>
              (Id(bag) = <<"7", "7", "7">> /\ bag.fields.title = "T")

\* the scenario: the bag {title: "T", actions: [status=solved]}, a Create
\* answered with the Macro of id 777
C4_Witness ==
    /\ op = "Create" /\ nOps = 1 /\ diags = <<>>
    /\ config = [title |-> "T", actions |-> <<BagAction("status", "solved")>>]
    /\ resp # <<>> /\ resp[1].ID = 777
    /\ Id(bag) = <<"7", "7", "7">> /\ bag.fields.title = "T"
    /\ bag.fields.url = ""

\* C5: in a lifecycle that starts with a Create on an empty identifier and
\* goes on with Read, Update and Delete calls, the identifier is set once,
\* by the Create that succeeds; Read, Update and Delete never change it,
\* whether they succeed or fail.
C5_IdentifierSetOnceAtCreate ==
    [][ /\ op' \in ReadUpdateDelete =>
              (Id(bag') = Id(bag) /\ idSets' = idSets)
        /\ Id(bag') # Id(bag) => op' = "Create"
        /\ lifecycle' = "create_first" =>
              (idSets' <= 1 /\ (created' => idSets' = 1)) ]_vars

\* after the Create, an Update answered with a Macro of another id: the
\* identifier is still the one the Create set
C5_Witness ==
    /\ lifecycle = "create_first" /\ created /\ nOps = 2
    /\ op = "Update" /\ diags = <<>> /\ idSets = 1
    /\ resp # <<>> /\ ParseInt(Id(bag)).val # resp[1].ID

\* C6: Create ignores the identifier the bag already holds: two bags that
\* differ only in the identifier make Create issue the same CreateMacro
\* call and return the same diagnostics.
C6_CreateIgnoresIdentifier ==
    \A id2 \in IdStrings, zd \in Responses, W \in WriteOutcomes :
        LET a == createMacro(bag, zd, W)
            b == createMacro(SetId(bag, id2), zd, W)
        IN a.calls = b.calls /\ a.diags = b.diags

\* C7, as claimed: whenever an operation returns a diagnostic, also one
\* for a bag write rejected during Encode, the bag is as before the call.
C7_AllOrNothing ==
    [][ diags' # <<>> => bag' = bag ]_vars

\* C7, amended: an operation that returns a diagnostic for a malformed
\* identifier or a failed remote call leaves the bag as it was.  After a
\* bag write rejected during Encode the writes accepted before it stay,
\* and Create has already set the identifier to the remote id.
C7_AllOrNothingBeforeEncode ==
    [][ /\ (diags' # <<>> /\ resp' = <<>>) => bag' = bag
        /\ (diags' # <<>> /\ resp' # <<>>) =>
              /\ \A k \in DOMAIN bag'.fields :
                    \/ (k \in DOMAIN bag.fields
                        /\ bag'.fields[k] = bag.fields[k])
                    \/ KeyHolds(bag', k, resp'[1])
              /\ DOMAIN bag.fields \subseteq DOMAIN bag'.fields
              /\ IF op' = "Create" THEN IsDecimalOf(Id(bag'), resp'[1].ID)
                 ELSE Id(bag') = Id(bag) ]_vars

\* a Delete whose DeleteMacro call failed, on a bag that holds fields
C7_Witness ==
    /\ op = "Delete" /\ Len(diags) = 1
    /\ calls # <<>> /\ calls[1].method = "DeleteMacro"
    /\ ParseInt(Id(bag)).ok /\ "title" \in DOMAIN bag.fields

\* C8: round trip.  A bag whose identifier is the decimal string of m.ID
\* and into which m was encoded decodes to m: the id and all seven fields,
\* the actions in their order.
C8_RoundTrip ==
    (/\ op \in CreateReadUpdate /\ diags = <<>>
     /\ resp # <<>> /\ Id(bag) = Sprintf(resp[1].ID)) =>
        unmarshalMacro(bag) = [m |-> resp[1], err |-> FALSE]

\* a Macro with two actions and a negative id was encoded into the bag
C8_Witness ==
    /\ op \in CreateReadUpdate /\ diags = <<>>
    /\ resp # <<>> /\ Id(bag) = Sprintf(resp[1].ID)
    /\ Len(resp[1].Actions) = 2 /\ resp[1].ID < 0
    /\ unmarshalMacro(bag).m.Actions =
          <<MacroAction("status", "open"), MacroAction("priority", "high")>>

\* C9, as claimed: a bag that omits active decodes to active == true, and a
\* bag that holds active = false decodes to active == false.  (The decoded
\* Macro is the one Create and Update hand to the remote call.)
C9_AbsentActiveDecodesTrue ==
    [][ (op' \in {"Create", "Update"} /\ calls' # <<>>) =>
            /\ "active" \notin DOMAIN bag.fields => calls'[1].m.Active = TRUE
            /\ ("active" \in DOMAIN bag.fields /\ bag.fields.active = FALSE)
                  => calls'[1].m.Active = FALSE ]_vars

\* C9, amended: Decode applies no default of its own.  It copies active
\* from the bag when the bag holds it, and a bag with no active entry
\* decodes to active == false.  The bag the host builds for a configuration
\* that omits active holds the schema default and decodes to active == true.
C9_ActiveFromBagOrZero ==
    [][ (op' \in {"Create", "Update"} /\ calls' # <<>>) =>
            /\ "active" \notin DOMAIN bag.fields => calls'[1].m.Active = FALSE
            /\ "active" \in DOMAIN bag.fields
                  => calls'[1].m.Active = bag.fields.active
            /\ (nOps = 0 /\ hostFilled /\ "active" \notin DOMAIN config)
                  => calls'[1].m.Active = TRUE ]_vars

\* the host-built bag of a configuration that omits active, decoded by Create
C9_Witness ==
    /\ op = "Create" /\ nOps = 1 /\ calls # <<>>
    /\ hostFilled /\ "active" \notin DOMAIN config
    /\ calls[1].m.Active = TRUE /\ calls[1].m.Title = "T"

\* C10: whenever Update issues UpdateMacro(id, m), id is the base-10 parse
\* of the bag's identifier and equals m.ID; with an empty identifier Update
\* fails before the call.
C10_UpdateIdAgrees ==
    [][ /\ (op' = "Update" /\ calls' # <<>>) =>
              /\ Len(calls') = 1 /\ calls'[1].method = "UpdateMacro"
              /\ ParseInt(Id(bag)).ok
              /\ calls'[1].id = ParseInt(Id(bag)).val
              /\ calls'[1].m.ID = calls'[1].id
        /\ (op' = "Update" /\ Id(bag) = <<>>) =>
              (calls' = <<>> /\ diags' # <<>>) ]_vars

\* an Update on the identifier "007": UpdateMacro(7, m) with m.ID = 7
C10_Witness ==
    /\ op = "Update" /\ Id(bag) = <<"0", "0", "7">>
    /\ calls # <<>> /\ calls[1].method = "UpdateMacro"
    /\ calls[1].id = 7 /\ calls[1].m.ID = 7

=============================================================================
